---- MODULE Spec2Model ----
(***************************************************************************)
(* Ring assembler (src/geodata/find_polygons.rs), scanline rasterizer      *)
(* (src/draw/fill.rs) and the relation arm of the importer                 *)
(* (src/geodata/importer.rs) of osm-renderer, as state machines.           *)
(*                                                                         *)
(* Vec indices are 1-based here (Rust: 0-based); a segment index k of the  *)
(* model is the index k-1 of the source.                                   *)
(***************************************************************************)
EXTENDS Integers, Sequences, FiniteSets, TLC

\* Bounds of the ring assembler's inputs.
NPos == 4
MaxSegs == 4
LongPos == 3
LongLen == 6

\* Bounds of the rasterizer's inputs.
MaxX == 2
MaxY == 2
MaxEdges == 2
MaxChain == 4
MaxWidth == 10
MaxHeight == 5
WalkMax == 3

\* Bounds of the inputs with several node ids at one position.
AliasPos == 3
AliasSegs == 3

\* Bounds of the importer's inputs.
ImportPos == 3
ImportSegs == 4
MaxRelations == 2
MaxGlobalId == 2

VARIABLES
    relation_segments,   \* find_polygons_in_multipolygon: the input slice
    available_segments,  \* find_polygons.rs:38
    unmatched_count,     \* find_polygons.rs:37
    all_rings,           \* find_polygons.rs:39
    start_idx,           \* find_ring: the loop variable of line 142
    used_segments,       \* CurrentRing.used_segments
    used_vertices,       \* CurrentRing.used_vertices
    candidate_stack,     \* find_ring_from: line 207
    polygons,            \* find_polygons.rs:59
    before_include,      \* the CurrentRing as it was before each segment that
                         \* is provisionally included was included
    pc,                  \* position in find_polygons_in_multipolygon
    points,              \* fill_contour: the input edges (p1, p2)
    edge_idx,            \* fill.rs:16, the edge being rasterized
    cur_point,           \* draw_line: fill.rs:49
    err,                 \* draw_line: fill.rs:48
    y_to_edges,          \* fill.rs:13
    figure,              \* the pixels passed to figure.add, fill.rs:29
    rows_done,           \* the rows the loop of fill.rs:20 has visited
    fpc,                 \* position in fill_contour
    call,                \* which call of fill_contour is running
    first_figure,        \* the Figure the first call returned
    relation,            \* process_element: the RawRelation of lines 239-243
    elem_count,          \* parse_osm_xml: importer.rs:188
    polygon_storage,     \* EntityStorages.polygon_storage
    multipolygon_storage, \* EntityStorages.multipolygon_storage
    storages_at_call,    \* the two storages when process_element was called
    results,             \* what the calls of process_element returned
    ipc                  \* position in parse_osm_xml / process_element

ringVars == <<relation_segments, available_segments, unmatched_count, all_rings,
              start_idx, used_segments, used_vertices, candidate_stack, polygons,
              before_include, pc>>

fillVars == <<points, edge_idx, cur_point, err, y_to_edges, figure, rows_done, fpc,
              call, first_figure>>

importVars == <<relation, elem_count, polygon_storage, multipolygon_storage,
                storages_at_call, results, ipc>>

vars == <<ringVars, fillVars, importVars>>

----------------------------------------------------------------------------
(* Data *)

Positions == 1..NPos

\* NodeDesc::new: an id and a position key. The position key stands for the
\* pair of bit patterns (lat.to_bits(), lon.to_bits()): only equality is used.
NodeDesc(id, pos) == [id |-> id, pos |-> pos]

NodeDescPair(node1, node2, is_inner) ==
    [node1 |-> node1, node2 |-> node2, is_inner |-> is_inner]

\* The node stored at a position: ids are disjoint from position keys.
NodeAt(p) == NodeDesc(NPos + p, p)

\* A second node stored at the position p: another id, the same lat and lon.
AliasAt(p) == NodeDesc(2 * NPos + p, p)

ConnectedSegment(other_side, segment_index, is_inner) ==
    [other_side |-> other_side, segment_index |-> segment_index, is_inner |-> is_inner]

add_to_connections_same_side(p, pos1, pos2, segment_index, is_inner) ==
    IF pos1 = p THEN <<ConnectedSegment(pos1, segment_index, is_inner)>> ELSE <<>>

\* add_to_connections for the key p: the entry pushed under pos1 when pos1 = p.
add_to_connections(p, pos1, pos2, segment_index, is_inner) ==
    IF pos1 = p THEN <<ConnectedSegment(pos2, segment_index, is_inner)>> ELSE <<>>

RECURSIVE connections_upto(_, _, _)
connections_upto(segs, n, p) ==
    IF n = 0 THEN <<>>
    ELSE connections_upto(segs, n - 1, p)
         \o add_to_connections(p, segs[n].node1.pos, segs[n].node2.pos, n, segs[n].is_inner)
         \o add_to_connections(p, segs[n].node2.pos, segs[n].node1.pos, n, segs[n].is_inner)

EndPositions(segs) ==
    {segs[k].node1.pos : k \in DOMAIN segs} \cup {segs[k].node2.pos : k \in DOMAIN segs}

\* get_connections: position key -> adjacency list, in registration order.
get_connections(segs) ==
    [p \in EndPositions(segs) |-> connections_upto(segs, Len(segs), p)]

connections == get_connections(relation_segments)

\* SearchParams of the seed start_idx.
first_pos == relation_segments[start_idx].node1.pos
params_is_inner == relation_segments[start_idx].is_inner

Root == [tag |-> "Root", seg |-> ConnectedSegment(0, 0, FALSE)]
StartSegment(seg) == [tag |-> "StartSegment", seg |-> seg]
EndSegment(seg) == [tag |-> "EndSegment", seg |-> seg]

CanPush_any_class(seg, avail, vertices) ==
    LET can_use == avail[seg.segment_index]
        is_duplicate == seg.other_side \in vertices /\ seg.other_side # first_pos
    IN  can_use /\ ~is_duplicate

\* push_next_segments, lines 190-193: whether the candidate is pushed.
CanPush(seg, avail, vertices) ==
    LET can_use == seg.is_inner = params_is_inner /\ avail[seg.segment_index]
        is_duplicate == seg.other_side \in vertices /\ seg.other_side # first_pos
    IN  can_use /\ ~is_duplicate

RECURSIVE pushed_for_forward(_, _, _, _)
pushed_for_forward(segs, n, avail, vertices) ==
    IF n = 0 THEN <<>>
    ELSE pushed_for_forward(segs, n - 1, avail, vertices)
         \o (IF CanPush(segs[n], avail, vertices)
             THEN <<EndSegment(segs[n]), StartSegment(segs[n])>>
             ELSE <<>>)

\* The elements pushed for the adjacency entries segs[1..n], iterated in
\* reverse: entry n is pushed first, entry 1 last (and so ends on top).
RECURSIVE pushed_for(_, _, _, _)
pushed_for(segs, n, avail, vertices) ==
    IF n = 0 THEN <<>>
    ELSE (IF CanPush(segs[n], avail, vertices)
          THEN <<EndSegment(segs[n]), StartSegment(segs[n])>>
          ELSE <<>>)
         \o pushed_for(segs, n - 1, avail, vertices)

\* push_next_segments: the stack after the call (top of stack = last element).
push_next_segments(from_pos, avail, vertices, stack) ==
    IF from_pos \in DOMAIN connections
    THEN stack \o pushed_for(connections[from_pos], Len(connections[from_pos]), avail, vertices)
    ELSE stack

\* Lines 60-75: the polygon of one ring.
RECURSIVE polygon_upto(_, _, _)
polygon_upto(segs, ring, n) ==
    IF n = 0 THEN <<>>
    ELSE LET seg == segs[ring[n]]
             before == IF n = 1 THEN <<seg.node1.id>> ELSE polygon_upto(segs, ring, n - 1)
             last_node == before[Len(before)]
         IN  Append(before, IF last_node = seg.node1.id THEN seg.node2.id ELSE seg.node1.id)

polygon_of_open(segs, ring) == SubSeq(polygon_upto(segs, ring, Len(ring)), 1, Len(ring))

polygon_of(segs, ring) == polygon_upto(segs, ring, Len(ring))

----------------------------------------------------------------------------
(* Inputs *)

\* Position keys are only compared for equality and is_inner flags only with
\* each other, so inputs are taken up to renaming of positions and up to
\* swapping inner and outer: positions are numbered in order of first
\* appearance and the first segment is outer.
Min(a, b) == IF a <= b THEN a ELSE b
Max(a, b) == IF a >= b THEN a ELSE b

\* The endpoint positions of a segment that may follow a list in which the
\* positions 1..seen occur.
NextEnds(seen) ==
    {ab \in Positions \X Positions :
        /\ ab[1] <= seen + 1
        /\ ab[2] <= Max(seen, ab[1]) + 1}

\* relation_segments is a list that extends segs, in which the positions
\* 1..seen occur, by at most n segments.
RECURSIVE InputFrom(_, _, _)
InputFrom(segs, seen, n) ==
    \/ relation_segments = segs
    \/ /\ n > 0
       /\ \E e \in NextEnds(seen), i \in (IF segs = <<>> THEN {FALSE} ELSE BOOLEAN) :
              InputFrom(Append(segs, NodeDescPair(NodeAt(e[1]), NodeAt(e[2]), i)),
                        Max(seen, Max(e[1], e[2])), n - 1)

RingInput == InputFrom(<<>>, 0, MaxSegs)

\* Longer lists from a smaller pool: LongLen segments, none of zero length,
\* between the positions 1..LongPos (duplicates included), the first outer.
LongPool ==
    {NodeDescPair(NodeAt(e[1]), NodeAt(e[2]), i) :
        e \in {ab \in (1..LongPos) \X (1..LongPos) : ab[1] < ab[2]}, i \in BOOLEAN}

LongInput ==
    /\ relation_segments \in [1..LongLen -> LongPool]
    /\ ~relation_segments[1].is_inner

\* Lists of at most AliasSegs outer segments between the positions
\* 1..AliasPos, each endpoint being one of the two nodes at its position.
RECURSIVE AliasFrom(_, _, _)
AliasFrom(segs, seen, n) ==
    \/ relation_segments = segs
    \/ /\ n > 0
       /\ \E e \in {ab \in NextEnds(seen) : ab[1] <= AliasPos /\ ab[2] <= AliasPos} :
          \E n1 \in {NodeAt(e[1]), AliasAt(e[1])}, n2 \in {NodeAt(e[2]), AliasAt(e[2])} :
              AliasFrom(Append(segs, NodeDescPair(n1, n2, FALSE)),
                        Max(seen, Max(e[1], e[2])), n - 1)

AliasInput == AliasFrom(<<>>, 0, AliasSegs)

----------------------------------------------------------------------------
(* find_polygons_in_multipolygon *)

RingStart ==
    /\ available_segments = [k \in DOMAIN relation_segments |-> TRUE]
    /\ unmatched_count = Len(relation_segments)
    /\ all_rings = <<>>
    /\ start_idx = 0
    /\ used_segments = <<>>
    /\ used_vertices = {}
    /\ candidate_stack = <<>>
    /\ polygons = <<>>
    /\ before_include = <<>>
    /\ pc = "while"

RingInit == RingInput /\ RingStart

\* Line 41: the loop condition; line 42 enters find_ring, line 59 leaves the loop.
WhileUnmatched ==
    /\ pc = "while"
    /\ IF unmatched_count > 0
       THEN pc' = "find_ring" /\ start_idx' = 1
       ELSE pc' = "build" /\ UNCHANGED start_idx
    /\ UNCHANGED <<relation_segments, available_segments, unmatched_count, all_rings,
                   used_segments, used_vertices, candidate_stack, polygons,
                   before_include>>
    /\ UNCHANGED <<fillVars, importVars>>

\* find_ring, lines 142-164: one iteration of the seed loop up to the call of
\* find_ring_from (whose first statement, line 207, sets up the stack).
FindRingSeed ==
    /\ pc = "find_ring"
    /\ start_idx <= Len(available_segments)
    /\ IF ~available_segments[start_idx]
       THEN /\ start_idx' = start_idx + 1
            /\ UNCHANGED <<available_segments, used_segments, used_vertices,
                           candidate_stack, before_include, pc>>
       ELSE /\ available_segments' = [available_segments EXCEPT ![start_idx] = FALSE]
            /\ used_segments' = <<start_idx>>
            /\ used_vertices' = {relation_segments[start_idx].node1.pos,
                                 relation_segments[start_idx].node2.pos}
            /\ candidate_stack' = <<Root>>
            /\ before_include' = <<>>
            /\ pc' = "search"
            /\ UNCHANGED start_idx
    /\ UNCHANGED <<relation_segments, unmatched_count, all_rings, polygons>>
    /\ UNCHANGED <<fillVars, importVars>>

\* find_ring, line 172, and the None arm of lines 47-55.
FindRingNone ==
    /\ pc = "find_ring"
    /\ start_idx > Len(available_segments)
    /\ pc' = "failed"
    /\ UNCHANGED <<relation_segments, available_segments, unmatched_count, all_rings,
                   start_idx, used_segments, used_vertices, candidate_stack, polygons,
                   before_include>>
    /\ UNCHANGED <<fillVars, importVars>>

Top == candidate_stack[Len(candidate_stack)]
Popped == SubSeq(candidate_stack, 1, Len(candidate_stack) - 1)

\* find_ring_from, lines 211-213.
SearchRoot ==
    /\ pc = "search"
    /\ candidate_stack # <<>>
    /\ Top.tag = "Root"
    /\ candidate_stack' = push_next_segments(relation_segments[start_idx].node2.pos,
                                             available_segments, used_vertices, Popped)
    /\ UNCHANGED <<relation_segments, available_segments, unmatched_count, all_rings,
                   start_idx, used_segments, used_vertices, polygons, before_include, pc>>
    /\ UNCHANGED <<fillVars, importVars>>

include_available_kept(seg) == available_segments

\* CurrentRing, lines 117-121.
CurrentRing(available, segments, vertices) ==
    [available_segments |-> available, used_segments |-> segments, used_vertices |-> vertices]

\* CurrentRing::include_segment.
include_available(seg) == [available_segments EXCEPT ![seg.segment_index] = FALSE]
include_segments(seg) == Append(used_segments, seg.segment_index)
include_vertices(seg) == used_vertices \cup {seg.other_side}

exclude_available_kept(seg) == available_segments

\* CurrentRing::exclude_segment.
exclude_available(seg) == [available_segments EXCEPT ![seg.segment_index] = TRUE]
exclude_segments(seg) == SubSeq(used_segments, 1, Len(used_segments) - 1)
exclude_vertices(seg) == used_vertices \ {seg.other_side}

RingCloses_two(seg, ring) == first_pos = seg.other_side /\ Len(ring) >= 2

\* Line 216: the ring closes.
RingCloses(seg, ring) == first_pos = seg.other_side /\ Len(ring) >= 3

unmatched_after_one(count, ring) == count - 1

unmatched_after_more(count, ring) == count - Len(ring) - 1

\* Line 44: a usize subtraction, which underflows below 0.
unmatched_after(count, ring) == count - Len(ring)

\* find_ring_from, lines 214-220; on return true, find_ring returns the ring
\* (line 165) and lines 43-46 record it.
SearchStart ==
    /\ pc = "search"
    /\ candidate_stack # <<>>
    /\ Top.tag = "StartSegment"
    /\ LET seg == Top.seg
           avail == include_available(seg)
           ring == include_segments(seg)
           vertices == include_vertices(seg)
       IN  /\ available_segments' = avail
           /\ used_segments' = ring
           /\ used_vertices' = vertices
           /\ before_include' = Append(before_include,
                   CurrentRing(available_segments, used_segments, used_vertices))
           /\ IF RingCloses(seg, ring)
              THEN /\ candidate_stack' = Popped
                   /\ IF unmatched_after(unmatched_count, ring) < 0
                      THEN pc' = "overflow" /\ UNCHANGED <<unmatched_count, all_rings>>
                      ELSE /\ unmatched_count' = unmatched_after(unmatched_count, ring)
                           /\ all_rings' = Append(all_rings, ring)
                           /\ pc' = "while"
              ELSE /\ candidate_stack' =
                          push_next_segments(seg.other_side, avail, vertices, Popped)
                   /\ UNCHANGED <<unmatched_count, all_rings, pc>>
    /\ UNCHANGED <<relation_segments, start_idx, polygons>>
    /\ UNCHANGED <<fillVars, importVars>>

\* find_ring_from, line 221.
SearchEnd ==
    /\ pc = "search"
    /\ candidate_stack # <<>>
    /\ Top.tag = "EndSegment"
    /\ available_segments' = exclude_available(Top.seg)
    /\ used_segments' = exclude_segments(Top.seg)
    /\ used_vertices' = exclude_vertices(Top.seg)
    /\ before_include' = SubSeq(before_include, 1, Len(before_include) - 1)
    /\ candidate_stack' = Popped
    /\ UNCHANGED <<relation_segments, unmatched_count, all_rings, start_idx, polygons, pc>>
    /\ UNCHANGED <<fillVars, importVars>>

\* find_ring_from returns false (line 225); find_ring restores the seed (line 169).
SearchFail ==
    /\ pc = "search"
    /\ candidate_stack = <<>>
    /\ available_segments' = [available_segments EXCEPT ![start_idx] = TRUE]
    /\ start_idx' = start_idx + 1
    /\ pc' = "find_ring"
    /\ UNCHANGED <<relation_segments, unmatched_count, all_rings, used_segments,
                   used_vertices, candidate_stack, polygons, before_include>>
    /\ UNCHANGED <<fillVars, importVars>>

\* Lines 59-76.
BuildPolygons ==
    /\ pc = "build"
    /\ polygons' = [r \in DOMAIN all_rings |-> polygon_of(relation_segments, all_rings[r])]
    /\ pc' = "done"
    /\ UNCHANGED <<relation_segments, available_segments, unmatched_count, all_rings,
                   start_idx, used_segments, used_vertices, candidate_stack,
                   before_include>>
    /\ UNCHANGED <<fillVars, importVars>>

RingNext ==
    \/ WhileUnmatched
    \/ FindRingSeed
    \/ FindRingNone
    \/ SearchRoot
    \/ SearchStart
    \/ SearchEnd
    \/ SearchFail
    \/ BuildPolygons

RingIdle ==
    /\ relation_segments = <<>>
    /\ available_segments = <<>>
    /\ unmatched_count = 0
    /\ all_rings = <<>>
    /\ start_idx = 0
    /\ used_segments = <<>>
    /\ used_vertices = {}
    /\ candidate_stack = <<>>
    /\ polygons = <<>>
    /\ before_include = <<>>
    /\ pc = "idle"

----------------------------------------------------------------------------
(* fill_contour and draw_line *)

Point(x, y) == [x |-> x, y |-> y]

Edge(x_min, x_max, is_poisoned) ==
    [x_min |-> x_min, x_max |-> x_max, is_poisoned |-> is_poisoned]

Abs(v) == IF v < 0 THEN -v ELSE v

\* Line 44.
get_dir(c1, c2) == IF c1 < c2 THEN 1 ELSE -1

\* The edge being rasterized (line 16).
p1 == points[edge_idx][1]
p2 == points[edge_idx][2]

\* Lines 41-46.
dx == Abs(p2.x - p1.x)
dy == -Abs(p2.y - p1.y)
sx == get_dir(p1.x, p2.x)
sy == get_dir(p1.y, p2.y)

is_start == cur_point = p1
is_end == cur_point = p2

is_poisoned_end_only == IF is_end THEN p2.y <= p1.y ELSE FALSE

is_poisoned_start_only == IF is_start THEN p1.y <= p2.y ELSE FALSE

is_poisoned_end_first ==
    IF is_end THEN p2.y < p1.y
    ELSE IF is_start THEN p1.y <= p2.y
    ELSE FALSE

is_poisoned_strict ==
    IF is_start THEN p1.y < p2.y
    ELSE IF is_end THEN p2.y <= p1.y
    ELSE FALSE

\* Lines 55-61.
is_poisoned ==
    IF is_start THEN p1.y <= p2.y
    ELSE IF is_end THEN p2.y <= p1.y
    ELSE FALSE

\* Lines 63-75: the Edge record of (row cur.y, edge idx) is created if absent
\* and then widened to cur.x and poisoned if asked.
upsert_edge(map, idx, cur, poisoned) ==
    LET row == IF cur.y \in DOMAIN map THEN map[cur.y] ELSE <<>>
        old == IF idx \in DOMAIN row THEN row[idx] ELSE Edge(cur.x, cur.x, poisoned)
        new == Edge(Min(old.x_min, cur.x), Max(old.x_max, cur.x),
                    old.is_poisoned \/ poisoned)
        row2 == [i \in DOMAIN row \cup {idx} |-> IF i = idx THEN new ELSE row[i]]
    IN  [r \in DOMAIN map \cup {cur.y} |-> IF r = cur.y THEN row2 ELSE map[r]]

\* Lines 81-89: the Bresenham step.
step_x == 2 * err >= dy
step_y == 2 * err <= dx
next_err_without_dx == err + (IF step_x THEN dy ELSE 0)
next_err == err + (IF step_x THEN dy ELSE 0) + (IF step_y THEN dx ELSE 0)
next_point ==
    Point(IF step_x THEN cur_point.x + sx ELSE cur_point.x,
          IF step_y THEN cur_point.y + sy ELSE cur_point.y)

\* `as usize` of an i32 (line 29): sign extension to 64 bits.
AsUsize(v) == IF v >= 0 THEN v ELSE v + 2^64

\* The orders in which a HashMap with the keys D may yield its entries.
Orderings(D) ==
    {s \in [1..Cardinality(D) -> D] : \A i, j \in 1..Cardinality(D) : i # j => s[i] # s[j]}

NotPoisoned_any(e) == TRUE

\* Line 21: edges.values() in the order ord, without the poisoned ones.
NotPoisoned(e) == ~e.is_poisoned
good_edges_unsorted(row, ord) == SelectSeq([k \in DOMAIN ord |-> row[ord[k]]], NotPoisoned)

\* Line 22: sort_by_key is a stable sort; e goes after the elements whose key
\* is not larger.
insert_by_x_min(sorted, e) ==
    LET k == Cardinality({i \in DOMAIN sorted : sorted[i].x_min <= e.x_min})
    IN  SubSeq(sorted, 1, k) \o <<e>> \o SubSeq(sorted, k + 1, Len(sorted))

RECURSIVE sort_by_x_min(_, _)
sort_by_x_min(seq, n) ==
    IF n = 0 THEN <<>> ELSE insert_by_x_min(sort_by_x_min(seq, n - 1), seq[n])

good_edges(row, ord) ==
    LET unsorted == good_edges_unsorted(row, ord)
    IN  sort_by_x_min(unsorted, Len(unsorted))

\* Lines 25-27: with an odd number of edges the last iteration reads
\* good_edges[idx + 1] at idx + 1 = len, which panics.
reads_past_end(good) == Len(good) % 2 = 1

pair_pixels_open(good, y) ==
    UNION {{<<AsUsize(x), AsUsize(y)>> : x \in good[2 * k - 1].x_min .. (good[2 * k].x_max - 1)} :
           k \in 1..(Len(good) \div 2)}

\* Lines 24-32: the pixels added for the pairs (1st, 2nd), (3rd, 4th), ...
pair_pixels(good, y) ==
    UNION {{<<AsUsize(x), AsUsize(y)>> : x \in good[2 * k - 1].x_min .. good[2 * k].x_max} :
           k \in 1..(Len(good) \div 2)}

\* Lines 12-14: the state at the start of a call.
FillStart ==
    /\ edge_idx = 1
    /\ cur_point = Point(0, 0)
    /\ err = 0
    /\ y_to_edges = <<>>
    /\ figure = {}
    /\ rows_done = {}
    /\ fpc = "edges"
    /\ call = 1
    /\ first_figure = {}

FillIdle ==
    /\ points = <<>>
    /\ edge_idx = 0
    /\ cur_point = Point(0, 0)
    /\ err = 0
    /\ y_to_edges = <<>>
    /\ figure = {}
    /\ rows_done = {}
    /\ fpc = "idle"
    /\ call = 0
    /\ first_figure = {}

\* Lines 16-17 and 41-49: the next edge is taken and draw_line starts.
DrawLine ==
    /\ fpc = "edges"
    /\ edge_idx <= Len(points)
    /\ cur_point' = p1
    /\ err' = dx + dy
    /\ fpc' = "walk"
    /\ UNCHANGED <<points, edge_idx, y_to_edges, figure, rows_done, call, first_figure>>
    /\ UNCHANGED <<ringVars, importVars>>

\* Lines 51-90: one iteration of the loop of draw_line.
DrawStep ==
    /\ fpc = "walk"
    /\ y_to_edges' = upsert_edge(y_to_edges, edge_idx, cur_point, is_poisoned)
    /\ IF is_end
       THEN /\ edge_idx' = edge_idx + 1
            /\ fpc' = "edges"
            /\ UNCHANGED <<cur_point, err>>
       ELSE /\ cur_point' = next_point
            /\ err' = next_err
            /\ UNCHANGED <<edge_idx, fpc>>
    /\ UNCHANGED <<points, figure, rows_done, call, first_figure>>
    /\ UNCHANGED <<ringVars, importVars>>

\* Line 16 ends; the loop of line 20 starts.
EdgesDone ==
    /\ fpc = "edges"
    /\ edge_idx > Len(points)
    /\ fpc' = "fill"
    /\ UNCHANGED <<points, edge_idx, cur_point, err, y_to_edges, figure, rows_done,
                   call, first_figure>>
    /\ UNCHANGED <<ringVars, importVars>>

\* Lines 20-33: one row, which the map yields in any order, as it yields the
\* row's edges.
FillRow ==
    /\ fpc = "fill"
    /\ \E y \in DOMAIN y_to_edges \ rows_done :
        \E ord \in Orderings(DOMAIN y_to_edges[y]) :
            LET good == good_edges(y_to_edges[y], ord)
            IN  /\ figure' = figure \cup pair_pixels(good, y)
                /\ rows_done' = rows_done \cup {y}
                /\ fpc' = IF reads_past_end(good) THEN "panicked" ELSE "fill"
    /\ UNCHANGED <<points, edge_idx, cur_point, err, y_to_edges, call, first_figure>>
    /\ UNCHANGED <<ringVars, importVars>>

\* Line 35.
FillReturn ==
    /\ fpc = "fill"
    /\ rows_done = DOMAIN y_to_edges
    /\ fpc' = "done"
    /\ UNCHANGED <<points, edge_idx, cur_point, err, y_to_edges, figure, rows_done,
                   call, first_figure>>
    /\ UNCHANGED <<ringVars, importVars>>

\* The caller calls fill_contour again with the same arguments.
CallAgain ==
    /\ fpc = "done"
    /\ call = 1
    /\ call' = 2
    /\ first_figure' = figure
    /\ edge_idx' = 1
    /\ y_to_edges' = <<>>
    /\ figure' = {}
    /\ rows_done' = {}
    /\ fpc' = "edges"
    /\ UNCHANGED <<points, cur_point, err>>
    /\ UNCHANGED <<ringVars, importVars>>

FillNext ==
    \/ DrawLine
    \/ DrawStep
    \/ EdgesDone
    \/ FillRow
    \/ FillReturn

----------------------------------------------------------------------------
(* Inputs of fill_contour *)

Grid == {Point(x, y) : x \in 0..MaxX, y \in 0..MaxY}

\* Any list of at most MaxEdges edges between grid points.
RECURSIVE EdgesFrom(_, _)
EdgesFrom(edges, n) ==
    \/ points = edges
    \/ /\ n > 0
       /\ \E a \in Grid, b \in Grid : EdgesFrom(Append(edges, <<a, b>>), n - 1)

AnyEdges == EdgesFrom(<<>>, MaxEdges)

\* The closed chain through the points ps: ps[1] -> ps[2] -> ... -> ps[1].
chain_of(ps) ==
    [k \in DOMAIN ps |-> <<ps[k], ps[IF k = Len(ps) THEN 1 ELSE k + 1]>>]

\* A closed chain through 3 to MaxChain grid points.
ClosedChain ==
    \E n \in 3..MaxChain : \E ps \in [1..n -> Grid] : points = chain_of(ps)

\* The edges of a closed chain through 3 grid points, in any order.
ShuffledChain ==
    \E ps \in [1..3 -> Grid] : \E ord \in Orderings(1..3) :
        points = [k \in 1..3 |-> chain_of(ps)[ord[k]]]

\* One edge between any two points with coordinates in -WalkMax..WalkMax.
WalkGrid == {Point(x, y) : x \in (-WalkMax)..WalkMax, y \in (-WalkMax)..WalkMax}
OneEdge == \E a \in WalkGrid, b \in WalkGrid : points = <<<<a, b>>>>

\* The rectangle (0,0)-(w,0)-(w,h)-(0,h)-(0,0).
rectangle(w, h) ==
    <<<<Point(0, 0), Point(w, 0)>>, <<Point(w, 0), Point(w, h)>>,
      <<Point(w, h), Point(0, h)>>, <<Point(0, h), Point(0, 0)>>>>

Rectangle == \E w \in 1..MaxWidth, h \in 1..MaxHeight : points = rectangle(w, h)

----------------------------------------------------------------------------
(* The importer: parse_osm_xml and the relation arm of process_element *)

\* OsmEntityStorage::new.
OsmEntityStorage(global_id_to_local_id, entities) ==
    [global_id_to_local_id |-> global_id_to_local_id, entities |-> entities]

\* OsmEntityStorage::add: the index of the new entity is the old size.
storage_add(storage, global_id, entity) ==
    OsmEntityStorage((global_id :> Len(storage.entities)) @@ storage.global_id_to_local_id,
                     Append(storage.entities, entity))

\* The Multipolygon of lines 253-257 (the tags take no part in the storing).
Multipolygon(global_id, polygon_ids) == [global_id |-> global_id, polygon_ids |-> polygon_ids]

RawRelation(global_id, is_multipolygon) ==
    [global_id |-> global_id, is_multipolygon |-> is_multipolygon]

find_result_of_rings ==
    [some |-> TRUE,
     polygons |-> [r \in DOMAIN all_rings |-> polygon_of(relation_segments, all_rings[r])]]

\* What find_polygons_in_multipolygon returned: Some(polygons) at line 76,
\* None at line 54.
find_result == [some |-> pc = "done", polygons |-> polygons]

\* Lines 259-262: polygon_ids gets the length of polygon_storage before each
\* push (Vec indices of the source, from 0).
polygon_ids_from_zero(storage, polys) == [k \in DOMAIN polys |-> k - 1]

polygon_ids_for(storage, polys) == [k \in DOMAIN polys |-> Len(storage) + k - 1]
push_polygons(storage, polys) == storage \o polys

\* The segment lists to_segments may give: at most ImportSegs segments between
\* the positions 1..ImportPos, which are numbered in order of first appearance.
ImportPairs ==
    {NodeDescPair(NodeAt(a), NodeAt(b), FALSE) : a \in 1..ImportPos, b \in 1..ImportPos}

SeenBefore(segs, k) ==
    UNION {{segs[j].node1.pos, segs[j].node2.pos} : j \in 1..(k - 1)} \cup {0}

SetMax(S) == CHOOSE m \in S : \A k \in S : m >= k

InOrderOfAppearance(segs) ==
    \A k \in DOMAIN segs :
        /\ segs[k].node1.pos <= SetMax(SeenBefore(segs, k)) + 1
        /\ segs[k].node2.pos <= Max(SetMax(SeenBefore(segs, k)), segs[k].node1.pos) + 1

\* The lists of at most n segments.
RECURSIVE ImportLists(_)
ImportLists(n) ==
    IF n = 0 THEN {<<>>}
    ELSE LET shorter == ImportLists(n - 1)
             longest == {segs \in shorter : Len(segs) = n - 1}
         IN  shorter \cup {longer \in {Append(segs, pair) : segs \in longest, pair \in ImportPairs} :
                               InOrderOfAppearance(longer)}

\* Relations of two rings: the triangle 1-2-3 followed by the three sides of
\* the same triangle again, in any order and each in either direction.
TwoRings ==
    {<<NodeDescPair(NodeAt(1), NodeAt(2), FALSE), NodeDescPair(NodeAt(2), NodeAt(3), FALSE),
       NodeDescPair(NodeAt(3), NodeAt(1), FALSE)>> \o second :
        second \in {t \in [1..3 -> ImportPairs] :
                       {{t[k].node1.pos, t[k].node2.pos} : k \in 1..3}
                         = {{1, 2}, {2, 3}, {1, 3}}}}

ImportPool == ImportLists(ImportSegs) \cup TwoRings

\* parse_osm_xml, lines 181-188.
ImportStart ==
    /\ relation = RawRelation(0, FALSE)
    /\ elem_count = 0
    /\ polygon_storage = <<>>
    /\ multipolygon_storage = OsmEntityStorage(<<>>, <<>>)
    /\ storages_at_call = <<<<>>, OsmEntityStorage(<<>>, <<>>)>>
    /\ results = <<>>
    /\ ipc = "parse"

ImportIdle ==
    /\ relation = RawRelation(0, FALSE)
    /\ elem_count = 0
    /\ polygon_storage = <<>>
    /\ multipolygon_storage = OsmEntityStorage(<<>>, <<>>)
    /\ storages_at_call = <<<<>>, OsmEntityStorage(<<>>, <<>>)>>
    /\ results = <<>>
    /\ ipc = "idle"

\* Lines 196 and 238-252: a relation with the tag type=multipolygon; its
\* segments go to find_polygons_in_multipolygon, which starts (lines 36-39).
ProcessMultipolygon ==
    /\ ipc = "parse"
    /\ elem_count < MaxRelations
    /\ \E global_id \in 1..MaxGlobalId, segments \in ImportPool :
          /\ relation' = RawRelation(global_id, TRUE)
          /\ relation_segments' = segments
          /\ available_segments' = [k \in DOMAIN segments |-> TRUE]
          /\ unmatched_count' = Len(segments)
    /\ all_rings' = <<>>
    /\ start_idx' = 0
    /\ used_segments' = <<>>
    /\ used_vertices' = {}
    /\ candidate_stack' = <<>>
    /\ polygons' = <<>>
    /\ before_include' = <<>>
    /\ pc' = "while"
    /\ storages_at_call' = <<polygon_storage, multipolygon_storage>>
    /\ ipc' = "find"
    /\ UNCHANGED <<elem_count, polygon_storage, multipolygon_storage, results>>
    /\ UNCHANGED fillVars

\* Lines 238-250, 270-271 and 197: a relation of another type is left out.
ProcessOtherRelation ==
    /\ ipc = "parse"
    /\ elem_count < MaxRelations
    /\ \E global_id \in 1..MaxGlobalId : relation' = RawRelation(global_id, FALSE)
    /\ storages_at_call' = <<polygon_storage, multipolygon_storage>>
    /\ results' = Append(results, "Ok")
    /\ elem_count' = elem_count + 1
    /\ UNCHANGED <<polygon_storage, multipolygon_storage, ipc>>
    /\ UNCHANGED <<ringVars, fillVars>>

\* Lines 252-266, 271 and 197: Some(polygons) is stored.
StorePolygons ==
    /\ ipc = "find"
    /\ pc \in {"done", "failed"}
    /\ find_result.some
    /\ polygon_storage' = push_polygons(polygon_storage, find_result.polygons)
    /\ multipolygon_storage' =
          storage_add(multipolygon_storage, relation.global_id,
                      Multipolygon(relation.global_id,
                                   polygon_ids_for(polygon_storage, find_result.polygons)))
    /\ results' = Append(results, "Ok")
    /\ elem_count' = elem_count + 1
    /\ ipc' = "parse"
    /\ UNCHANGED <<relation, storages_at_call>>
    /\ UNCHANGED <<ringVars, fillVars>>

\* Lines 252, 271 and 197: on None the body of the if let is skipped.
DropRelation ==
    /\ ipc = "find"
    /\ pc \in {"done", "failed"}
    /\ ~find_result.some
    /\ results' = Append(results, "Ok")
    /\ elem_count' = elem_count + 1
    /\ ipc' = "parse"
    /\ UNCHANGED <<relation, polygon_storage, multipolygon_storage, storages_at_call>>
    /\ UNCHANGED <<ringVars, fillVars>>

\* Lines 194 and 208.
EndDocument ==
    /\ ipc = "parse"
    /\ ipc' = "imported"
    /\ UNCHANGED <<relation, elem_count, polygon_storage, multipolygon_storage,
                   storages_at_call, results>>
    /\ UNCHANGED <<ringVars, fillVars>>

ImportNext ==
    \/ ProcessMultipolygon
    \/ ProcessOtherRelation
    \/ RingNext
    \/ StorePolygons
    \/ DropRelation
    \/ EndDocument

ImportInit == ImportStart /\ RingIdle /\ FillIdle

SpecImport == ImportInit /\ [][ImportNext]_vars

----------------------------------------------------------------------------
(* Specifications *)

FillInit == (AnyEdges \/ ClosedChain \/ Rectangle) /\ FillStart /\ RingIdle /\ ImportIdle

SpecFill == FillInit /\ [][FillNext]_vars

SpecTwice == FillInit /\ [][FillNext \/ CallAgain]_vars

\* The rasterizer on the same inputs and on closed chains whose edges come in
\* any order.
ChainsInit ==
    (AnyEdges \/ ClosedChain \/ ShuffledChain \/ Rectangle) /\ FillStart /\ RingIdle /\ ImportIdle
SpecChains == ChainsInit /\ [][FillNext]_vars

\* The rasterizer on one edge of any direction and slope.
WalkInit == OneEdge /\ FillStart /\ RingIdle /\ ImportIdle
SpecWalk == WalkInit /\ [][FillNext]_vars

Init == (RingInput \/ LongInput) /\ RingStart /\ FillIdle /\ ImportIdle
Next == RingNext
Spec == Init /\ [][Next]_vars

\* The call runs on: no step of the single-threaded function is postponed
\* forever.
\* The ring assembler on lists in which a position may hold two nodes.
AliasInit == AliasInput /\ RingStart /\ FillIdle /\ ImportIdle
SpecAlias == AliasInit /\ [][Next]_vars

RunsInit == RingInit /\ FillIdle /\ ImportIdle
SpecRuns == RunsInit /\ [][Next]_vars /\ WF_vars(Next)

----------------------------------------------------------------------------
(* Properties of the ring assembler *)

RingSet(ring) == {ring[k] : k \in DOMAIN ring}

EndsOf(seg) == {seg.node1.pos, seg.node2.pos}

EndIds(segs) ==
    {segs[k].node1.id : k \in DOMAIN segs} \cup {segs[k].node2.id : k \in DOMAIN segs}

\* Number of segment ends of the segments S that lie at position p.
Degree(segs, S, p) ==
    Cardinality({k \in S : segs[k].node1.pos = p})
    + Cardinality({k \in S : segs[k].node2.pos = p})

\* The positions reachable from the positions R along segments of S.
RECURSIVE Reach(_, _, _)
Reach(segs, S, R) ==
    LET R2 == R \cup UNION {EndsOf(segs[k]) : k \in {j \in S : EndsOf(segs[j]) \cap R # {}}}
    IN  IF R2 = R THEN R ELSE Reach(segs, S, R2)

\* The segments S form one simple closed loop of at least 3 segments, all of
\* one is_inner class: no zero-length segment, every position met by exactly
\* two segment ends, and all positions connected.
IsSimpleRing(segs, S) ==
    /\ Cardinality(S) >= 3
    /\ \A j \in S, k \in S : segs[j].is_inner = segs[k].is_inner
    /\ \A k \in S : segs[k].node1.pos # segs[k].node2.pos
    /\ LET ends == UNION {EndsOf(segs[k]) : k \in S}
       IN  /\ \A q \in ends : Degree(segs, S, q) = 2
           /\ \A k \in S : Reach(segs, S, {segs[k].node1.pos}) = ends

SetMin(S) == CHOOSE m \in S : \A k \in S : m <= k

\* The segments rem can be partitioned into simple rings.
RECURSIVE CanPartition(_, _)
CanPartition(segs, rem) ==
    \/ rem = {}
    \/ \E T \in SUBSET (rem \ {SetMin(rem)}) :
          /\ IsSimpleRing(segs, T \cup {SetMin(rem)})
          /\ CanPartition(segs, rem \ (T \cup {SetMin(rem)}))

SimpleLoop == IsSimpleRing(relation_segments, DOMAIN relation_segments)

Succeeded == pc \in {"build", "done"}

C2_FailsOnlyWithoutPartition ==
    pc = "failed" => ~CanPartition(relation_segments, DOMAIN relation_segments)

\* Lines 48-53: what the failure message carries.
failure_report == [complete_rings |-> Len(all_rings), unmatched |-> unmatched_count]

InNoRing(k) == \A r \in DOMAIN all_rings : k \notin RingSet(all_rings[r])

TwoDisconnected ==
    <<NodeDescPair(NodeAt(1), NodeAt(2), FALSE), NodeDescPair(NodeAt(3), NodeAt(4), FALSE)>>

\* C3: on failure the report carries the number of completed rings and, as
\* unmatched count, the number of input segments that are in none of them;
\* the two disconnected segments (id1,id2),(id3,id4) give 0 rings, 2 unmatched.
C3_FailureReport ==
    pc = "failed" =>
        /\ failure_report.unmatched =
              Cardinality({k \in DOMAIN relation_segments : InNoRing(k)})
        /\ failure_report.unmatched > 0
        /\ relation_segments = TwoDisconnected =>
              failure_report = [complete_rings |-> 0, unmatched |-> 2]

C3_Witness ==
    /\ pc = "failed"
    /\ failure_report.complete_rings >= 1
    /\ failure_report.unmatched >= 2

\* C4: on success every segment index occurs in exactly one ring, exactly
\* once, and the ring lengths sum to the number of segments (nothing is left
\* unmatched).
C4_RingsPartition ==
    Succeeded =>
        /\ \A k \in DOMAIN relation_segments :
              Cardinality({rj \in (DOMAIN all_rings) \X (1..Len(relation_segments)) :
                              /\ rj[2] \in DOMAIN all_rings[rj[1]]
                              /\ all_rings[rj[1]][rj[2]] = k}) = 1
        /\ unmatched_count = 0

C4_Witness == pc = "done" /\ Len(all_rings) = 2

SharePosition(j, k) == EndsOf(relation_segments[j]) \cap EndsOf(relation_segments[k]) # {}

HomogeneousRing(ring) ==
    \A j \in DOMAIN ring :
        relation_segments[ring[j]].is_inner = relation_segments[ring[1]].is_inner

\* C5: every ring built holds only segments of its seed's is_inner class (the
\* ring under construction too), also when inner and outer segments share an
\* endpoint position.
C5_RingsHomogeneous ==
    /\ \A r \in DOMAIN all_rings : HomogeneousRing(all_rings[r])
    /\ pc = "search" => HomogeneousRing(used_segments)

C5_Witness ==
    /\ pc = "done"
    /\ Len(all_rings) = 2
    /\ relation_segments[all_rings[2][1]].is_inner
    /\ \E j \in RingSet(all_rings[1]), k \in RingSet(all_rings[2]) : SharePosition(j, k)

ThereAndBack ==
    <<NodeDescPair(NodeAt(1), NodeAt(2), FALSE), NodeDescPair(NodeAt(2), NodeAt(1), FALSE)>>

\* C6: every ring returned by find_ring has at least 3 segments, and the two
\* segments A-B, B-A alone end in failure.
C6_NoShortRing ==
    /\ \A r \in DOMAIN all_rings : Len(all_rings[r]) >= 3
    /\ relation_segments = ThereAndBack => ~Succeeded /\ all_rings = <<>>

C6_Witness == relation_segments = ThereAndBack /\ pc = "failed"

\* The endpoint of seg other than the position p (p itself for a segment
\* with both endpoints at p).
OtherEnd(seg, p) == IF seg.node1.pos = p THEN seg.node2.pos ELSE seg.node1.pos

\* The position reached after the first n segments of ring, walking from the
\* seed's first endpoint.
RECURSIVE walk_pos(_, _, _)
walk_pos(segs, ring, n) ==
    IF n = 1 THEN segs[ring[1]].node2.pos
    ELSE OtherEnd(segs[ring[n]], walk_pos(segs, ring, n - 1))

ConnectedWalk(segs, ring) ==
    \A n \in 2..Len(ring) : walk_pos(segs, ring, n - 1) \in EndsOf(segs[ring[n]])

ClosedWalk(segs, ring) ==
    /\ ConnectedWalk(segs, ring)
    /\ walk_pos(segs, ring, Len(ring)) = segs[ring[1]].node1.pos

\* C14: every ring returned by find_ring is a closed connected walk: from the
\* seed's second endpoint each following segment has the current position as
\* one endpoint and moves to the other, and the last segment ends at the
\* position of the seed's first endpoint.
C14_RingsAreClosedWalks ==
    \A r \in DOMAIN all_rings : ClosedWalk(relation_segments, all_rings[r])

\* A ring of 4 segments, not taken in input order, one of them walked from
\* its node2 to its node1.
C14_Witness ==
    /\ pc = "done"
    /\ \E r \in DOMAIN all_rings :
          LET ring == all_rings[r]
          IN  /\ Len(ring) = 4
              /\ \E n \in 2..4 :
                    /\ relation_segments[ring[n]].node2.pos
                          = walk_pos(relation_segments, ring, n - 1)
                    /\ relation_segments[ring[n]].node1.pos
                          # walk_pos(relation_segments, ring, n - 1)
              /\ \E n \in 1..3 : ring[n + 1] < ring[n]

IdsOf(seg) == {seg.node1.id, seg.node2.id}

\* C15: each polygon is a directed walk over its ring's segments: it starts
\* with the id of the seed's first endpoint, and for every k its k-th and
\* (k+1)-th ids are the ids of the two endpoints of the ring's k-th segment,
\* also when two nodes with different ids have the same position key.
C15_PolygonIsDirectedWalk ==
    pc = "done" =>
        \A r \in DOMAIN polygons :
            LET P == polygons[r]
                ring == all_rings[r]
            IN  /\ Len(P) = Len(ring) + 1
                /\ P[1] = relation_segments[ring[1]].node1.id
                /\ \A k \in DOMAIN ring :
                      {P[k], P[k + 1]} = IdsOf(relation_segments[ring[k]])

\* Two segments of the ring join the same two positions.
DoubledBack(segs, ring) ==
    \E j, k \in DOMAIN ring :
        /\ j # k
        /\ EndsOf(segs[ring[j]]) = EndsOf(segs[ring[k]])
        /\ Cardinality(EndsOf(segs[ring[j]])) = 2

\* C16: every ring returned by find_ring is a simple cycle: its walk reaches
\* no position twice (the closing position only with the last segment), and
\* no two of its segments join the same two positions.
C16_RingsAreSimpleCycles ==
    \A r \in DOMAIN all_rings :
        LET ring == all_rings[r]
        IN  /\ \A j, k \in DOMAIN ring :
                  j # k => walk_pos(relation_segments, ring, j)
                           # walk_pos(relation_segments, ring, k)
            /\ ~DoubledBack(relation_segments, ring)

\* The position whose adjacency list the step at the top of the stack reads
\* (lines 212 and 218).
from_pos_of_top ==
    IF Top.tag = "Root" THEN relation_segments[start_idx].node2.pos ELSE Top.seg.other_side

\* The candidates at pos that are usable, in the order of registration.
UsableAt(pos, avail, vertices) ==
    IF pos \in DOMAIN connections
    THEN SelectSeq(connections[pos], LAMBDA c : CanPush(c, avail, vertices))
    ELSE <<>>

\* The candidates waiting on the stack above its first base elements, in the
\* order in which find_ring_from will include them (the top of the stack first).
WaitingAbove(stack, base) ==
    [i \in 1..((Len(stack) - base) \div 2) |-> stack[Len(stack) - 2 * (i - 1)].seg]

Reverse(seq) == [i \in 1..Len(seq) |-> seq[Len(seq) + 1 - i]]

\* A step of find_ring_from that reads an adjacency list and goes on searching.
PushStep ==
    /\ pc = "search" /\ pc' = "search"
    /\ candidate_stack # <<>>
    /\ Top.tag # "EndSegment"

AvailableAtCall == [k \in DOMAIN relation_segments |-> InNoRing(k)]

\* C18: at the call of find_ring, after every seed whose search failed and
\* when find_ring returns None, the availability array is the array at the
\* call: the seed and every provisionally included segment are available again.
C18_FailedSeedRestoresAvailability ==
    pc \in {"while", "find_ring", "failed"} => available_segments = AvailableAtCall

\* The search from the seed j provisionally includes the segment k.
IncludesFrom(j, k) ==
    /\ j # k
    /\ relation_segments[j].is_inner = relation_segments[k].is_inner
    /\ relation_segments[j].node2.pos \in EndsOf(relation_segments[k])
    /\ EndsOf(relation_segments[k]) \ EndsOf(relation_segments[j]) # {}

\* find_ring has returned None after a completed ring; one of the seeds that
\* failed had another segment provisionally included.
C18_Witness ==
    /\ pc = "failed"
    /\ Len(all_rings) = 1
    /\ \E j, k \in DOMAIN relation_segments :
          InNoRing(j) /\ InNoRing(k) /\ IncludesFrom(j, k)

\* The step of find_ring_from that excludes a provisionally included segment.
ExcludeStep ==
    /\ pc = "search"
    /\ candidate_stack # <<>>
    /\ Top.tag = "EndSegment"

\* C19: when a provisionally included segment is excluded again, the
\* availability array, the used-segment list and the used-vertex set are each
\* what they were just before the segment was included.
C19_ExcludeIsExactUndo ==
    [][ExcludeStep =>
          CurrentRing(available_segments', used_segments', used_vertices')
            = before_include[Len(before_include)]]_vars

\* The call has returned: Some(polygons) or None.
Returned == pc \in {"done", "failed"}

\* Every index the code uses is inside its Vec: the seed, the segments of the
\* ring under construction and of the completed rings, and the segments on
\* the search stack index relation_segments and available_segments.
IndicesInRange ==
    /\ DOMAIN available_segments = DOMAIN relation_segments
    /\ pc = "search" => start_idx \in DOMAIN relation_segments
    /\ pc = "search" => RingSet(used_segments) \subseteq DOMAIN relation_segments
    /\ \A r \in DOMAIN all_rings : RingSet(all_rings[r]) \subseteq DOMAIN relation_segments
    /\ \A k \in DOMAIN candidate_stack :
          candidate_stack[k].tag # "Root" =>
              candidate_stack[k].seg.segment_index \in DOMAIN relation_segments
    /\ pc = "search" /\ candidate_stack # <<>> /\ Top.tag = "EndSegment" =>
          used_segments # <<>>

\* C12: on every segment list the call returns, with polygons or with a
\* failure; until then it can take a step, unmatched_count never underflows
\* and every index is in range.
C12_Terminates ==
    /\ [](pc # "overflow" /\ unmatched_count >= 0 /\ IndicesInRange)
    /\ [](Returned \/ ENABLED Next)
    /\ <>Returned

\* A list with a zero-length segment, a duplicated segment and a segment
\* apart from the others has been worked through.
C12_Witness ==
    /\ Returned
    /\ \E k \in DOMAIN relation_segments :
          relation_segments[k].node1.pos = relation_segments[k].node2.pos
    /\ \E j, k \in DOMAIN relation_segments :
          j # k /\ EndsOf(relation_segments[j]) = EndsOf(relation_segments[k])
                /\ Cardinality(EndsOf(relation_segments[j])) = 2
    /\ \E k \in DOMAIN relation_segments : \A j \in DOMAIN relation_segments \ {k} :
          ~SharePosition(j, k)

----------------------------------------------------------------------------
(* Properties of the rasterizer *)

\* All edges were rasterized: the loop of line 16 has ended.
Rasterized == fpc \in {"fill", "done", "panicked"}

\* Number of Edge records of row y whose poison flag is false.
GoodCount(y) ==
    Cardinality({i \in DOMAIN y_to_edges[y] : ~y_to_edges[y][i].is_poisoned})

Block(xs, ys) == {<<x, y>> : x \in xs, y \in ys}

\* C7 as stated: the rectangle (0,0)-(10,0)-(10,5)-(0,5)-(0,0) fills exactly
\* the 66 pixels 0 <= x <= 10, 0 <= y <= 5, rows 0 and 5 included.
C7_RectangleFillsAllRows ==
    points = rectangle(10, 5) =>
        /\ fpc # "panicked"
        /\ fpc = "done" => figure = Block(0..10, 0..5)

\* C7 as amended: that rectangle fills exactly the 55 pixels 0 <= x <= 10,
\* 1 <= y <= 5: row 5 is fully filled and row 0 holds no pixel.
C7_RectangleFillsRowsAboveFirst ==
    points = rectangle(10, 5) =>
        /\ fpc # "panicked"
        /\ fpc = "done" =>
              /\ figure = Block(0..10, 1..5)
              /\ Cardinality(figure) = 55

C7_Witness == points = rectangle(10, 5) /\ fpc = "done"

\* C8: when a row has an odd number of non-poisoned edges, fill_contour drops
\* the unpaired edge, reads nothing past the end of the row's list and returns
\* normally.
C8_OddRowIsDropped ==
    (\E y \in rows_done : GoodCount(y) % 2 = 1) => fpc # "panicked"

\* C9 as stated: for every input, once all edges are rasterized, every row
\* has an even number of non-poisoned Edge records.
C9_EvenOnEveryInput ==
    Rasterized => \A y \in DOMAIN y_to_edges : GoodCount(y) % 2 = 0

\* The edges can be split into closed chains: every point starts as many
\* edges as it ends.
StartsAt(pt) == Cardinality({k \in DOMAIN points : points[k][1] = pt})
EndsAt(pt) == Cardinality({k \in DOMAIN points : points[k][2] = pt})
ClosedChains ==
    \A k \in DOMAIN points :
        /\ StartsAt(points[k][1]) = EndsAt(points[k][1])
        /\ StartsAt(points[k][2]) = EndsAt(points[k][2])

\* C9 as amended: for every input whose edges form closed chains, once all
\* edges are rasterized, every row has an even number of non-poisoned Edge
\* records.
C9_EvenOnClosedChains ==
    (Rasterized /\ ClosedChains) => \A y \in DOMAIN y_to_edges : GoodCount(y) % 2 = 0

C9_Witness ==
    /\ fpc = "done"
    /\ ClosedChains
    /\ Len(points) = 4
    /\ \E y \in DOMAIN y_to_edges : GoodCount(y) = 2
    /\ \E k \in DOMAIN points : points[k][1] = points[k][2]
    /\ \E k \in DOMAIN points : points[k][1].y = points[k][2].y /\ points[k][1].x # points[k][2].x

SinglePoints == \A k \in DOMAIN points : points[k][1] = points[k][2]

\* C11: on an input in which every edge has start = end, every Edge record
\* created is poisoned, no pixel is added, and the call returns (an empty
\* Figure) without reading past the end of a row.
C11_SinglePointsGiveEmptyFigure ==
    SinglePoints =>
        /\ \A y \in DOMAIN y_to_edges : \A i \in DOMAIN y_to_edges[y] :
              y_to_edges[y][i].is_poisoned
        /\ figure = {}
        /\ fpc # "panicked"

C11_Witness ==
    /\ fpc = "done"
    /\ SinglePoints
    /\ Len(points) >= 2
    /\ \E j, k \in DOMAIN points : points[j][1].y # points[k][1].y
    /\ Cardinality(DOMAIN y_to_edges) >= 2

\* Every row has an even number of non-poisoned Edge records.
EvenRows == \A y \in DOMAIN y_to_edges : GoodCount(y) % 2 = 0

\* The non-poisoned Edge records of row y in an order of ascending x_min
\* (records of equal x_min in either order).
SortedGood(y) ==
    LET row == y_to_edges[y]
    IN  {s \in Orderings({i \in DOMAIN row : ~row[i].is_poisoned}) :
            \A a, b \in DOMAIN s : a < b => row[s[a]].x_min <= row[s[b]].x_min}

\* The pixels (x, y) with e1.x_min <= x <= e2.x_max for a pair (e1, e2) of
\* the order s: 1st with 2nd, 3rd with 4th, ...
PairedPixels(y, s) ==
    {<<x, y>> : x \in {x \in 0..Max(MaxX, MaxWidth) :
                         \E k \in 1..(Len(s) \div 2) :
                             /\ y_to_edges[y][s[2 * k - 1]].x_min <= x
                             /\ x <= y_to_edges[y][s[2 * k]].x_max}}

\* C20: for an input (of non-negative coordinates) with an even number of
\* non-poisoned edges on every row, fill_contour returns, and the Figure
\* holds on each row exactly the pixels between the paired edges of that row,
\* sorted by x_min ascending, and no pixel on any other row.
C20_FigureIsThePairedSpans ==
    (Rasterized /\ EvenRows) =>
        /\ fpc # "panicked"
        /\ fpc = "done" =>
              /\ \A y \in DOMAIN y_to_edges :
                    \E s \in SortedGood(y) :
                        {px \in figure : px[2] = y} = PairedPixels(y, s)
              /\ \A px \in figure : px[2] \in DOMAIN y_to_edges

\* A row with two pairs of edges was filled, and a row whose edges are all
\* poisoned was left empty.
C20_Witness ==
    /\ fpc = "done"
    /\ EvenRows
    /\ \E y \in DOMAIN y_to_edges : GoodCount(y) = 4
    /\ \E y \in DOMAIN y_to_edges : GoodCount(y) = 0
    /\ figure # {}

\* draw_line has returned for the edge i.
Drawn(i) == i \in DOMAIN points /\ (i < edge_idx \/ Rasterized)

\* The rows on which the edge i has an Edge record.
RowsOf(i) == {y \in DOMAIN y_to_edges : i \in DOMAIN y_to_edges[y]}

\* C21: after draw_line has rasterized the edge i from p1 to p2, its Edge
\* record on the row y is poisoned if and only if y = p1.y and p1.y <= p2.y,
\* or y = p2.y and p2.y <= p1.y: a non-horizontal edge is poisoned on the row
\* of its smaller-y endpoint only, a horizontal or single-point edge on its
\* only row.
C21_PoisonedOnLowerEndRow ==
    \A i \in DOMAIN points :
        Drawn(i) =>
            LET a == points[i][1]
                b == points[i][2]
            IN  /\ \A y \in RowsOf(i) :
                      y_to_edges[y][i].is_poisoned
                        <=> ((y = a.y /\ a.y <= b.y) \/ (y = b.y /\ b.y <= a.y))
                /\ a.y # b.y =>
                      {y \in RowsOf(i) : y_to_edges[y][i].is_poisoned} = {Min(a.y, b.y)}
                /\ a.y = b.y =>
                      RowsOf(i) = {a.y} /\ y_to_edges[a.y][i].is_poisoned

\* An edge going up over two rows and an edge going down, each with two
\* cells on one of its end rows, and a horizontal edge have been rasterized.
C21_Witness ==
    /\ Rasterized
    /\ \E i \in DOMAIN points :
          /\ points[i][1].y + 2 = points[i][2].y
          /\ Abs(points[i][1].x - points[i][2].x) = 2
    /\ \E i \in DOMAIN points :
          /\ points[i][1].y > points[i][2].y
          /\ Abs(points[i][1].x - points[i][2].x) = 2
    /\ \E i \in DOMAIN points :
          /\ points[i][1].y = points[i][2].y
          /\ points[i][1].x # points[i][2].x

\* C22: if the input edges form closed chains, in any order in the input and
\* also with horizontal and zero-length edges, then once the edges are
\* rasterized every row has an even number of non-poisoned Edge records, and
\* fill_contour never reads good_edges[idx + 1] past the end of a row's list.
C22_ClosedChainsNeverReadPastEnd ==
    ClosedChains =>
        /\ Rasterized => EvenRows
        /\ fpc # "panicked"

\* A closed chain whose edges are not in chain order, one of them horizontal,
\* was filled, a row of it between two edges.
C22_Witness ==
    /\ fpc = "done"
    /\ ClosedChains
    /\ Len(points) = 3
    /\ points[1][2] # points[2][1]
    /\ \A j, k \in DOMAIN points : j # k => points[j] # points[k]
    /\ \E k \in DOMAIN points : points[k][1].y = points[k][2].y /\ points[k][1].x # points[k][2].x
    /\ \E y \in DOMAIN y_to_edges : GoodCount(y) = 2
    /\ figure # {}

\* The bounding box of the edge i.
InBox(i, pt) ==
    LET a == points[i][1]
        b == points[i][2]
    IN  /\ Min(a.x, b.x) <= pt.x /\ pt.x <= Max(a.x, b.x)
        /\ Min(a.y, b.y) <= pt.y /\ pt.y <= Max(a.y, b.y)

\* The number of unit moves from the current cell to p2.
StepsLeft == Abs(p2.x - cur_point.x) + Abs(p2.y - cur_point.y)

\* An iteration of the loop of draw_line that does not break.
WalkStep == fpc = "walk" /\ ~is_end

\* C23: the walk of draw_line from p1 to p2 ends: every iteration that does
\* not break brings the current cell nearer to p2, and the loop is left only
\* at p2; every cell visited lies in the bounding box of p1 and p2, and the
\* edge gets Edge records only on rows between p1.y and p2.y inclusive.
C23_WalkEndsInsideBox ==
    /\ [](fpc = "walk" => InBox(edge_idx, cur_point))
    /\ [](\A i \in DOMAIN points : \A y \in RowsOf(i) : InBox(i, Point(points[i][1].x, y)))
    /\ [][WalkStep => fpc' = "walk" /\ StepsLeft' < StepsLeft]_vars
    /\ [][fpc = "walk" /\ fpc' # "walk" => cur_point = p2]_vars

\* A walk of slope 3/2 to the lower left has reached its end.
C23_Witness ==
    /\ Rasterized
    /\ Len(points) = 1
    /\ points[1][2].x = points[1][1].x - 2
    /\ points[1][2].y = points[1][1].y - 3
    /\ Cardinality(RowsOf(1)) = 4

----------------------------------------------------------------------------
(* Properties of the importer *)

\* process_element has returned from a relation whose ring assembly failed.
DroppedLast == ipc \in {"parse", "imported"} /\ relation.is_multipolygon /\ pc = "failed"

\* C13: when ring assembly fails for a multipolygon relation, both storages
\* are what they were when process_element was called, the call returns Ok,
\* and the next relation can be processed.
C13_FailedRelationIsDropped ==
    /\ (ipc = "find" /\ pc = "failed") \/ DroppedLast =>
          /\ polygon_storage = storages_at_call[1]
          /\ multipolygon_storage = storages_at_call[2]
    /\ DroppedLast =>
          /\ Len(results) = elem_count
          /\ results[elem_count] = "Ok"
    /\ DroppedLast /\ ipc = "parse" /\ elem_count < MaxRelations =>
          ENABLED ProcessMultipolygon

\* A relation was stored, and the next one, whose assembly failed after one
\* complete ring, was dropped.
C13_Witness ==
    /\ DroppedLast
    /\ elem_count = 2
    /\ Len(all_rings) = 1
    /\ Len(polygon_storage) = 1
    /\ Len(multipolygon_storage.entities) = 1

\* The references to polygons: <<m, j>> is the j-th entry of the polygon_ids
\* of the m-th stored Multipolygon.
PolygonRefs ==
    {mj \in (DOMAIN multipolygon_storage.entities) \X (1..(Len(polygon_storage) + 1)) :
        mj[2] \in DOMAIN multipolygon_storage.entities[mj[1]].polygon_ids}

RefId(mj) == multipolygon_storage.entities[mj[1]].polygon_ids[mj[2]]

\* C24: whatever relations were processed, every entry of every stored
\* Multipolygon's polygon_ids is an index into polygon_storage (from 0), and
\* every polygon of polygon_storage is referred to by exactly one entry: no
\* index occurs in two multipolygons or twice in one.
C24_PolygonIdsMatchStorage ==
    /\ \A m \in DOMAIN multipolygon_storage.entities :
          Len(multipolygon_storage.entities[m].polygon_ids) <= Len(polygon_storage)
    /\ \A mj \in PolygonRefs : RefId(mj) \in 0..(Len(polygon_storage) - 1)
    /\ \A id \in 0..(Len(polygon_storage) - 1) :
          Cardinality({mj \in PolygonRefs : RefId(mj) = id}) = 1

\* A relation of one ring and a relation of two rings were stored.
C24_Witness ==
    /\ ipc = "imported"
    /\ Len(multipolygon_storage.entities) = 2
    /\ multipolygon_storage.entities[1].polygon_ids = <<0>>
    /\ multipolygon_storage.entities[2].polygon_ids = <<1, 2>>
    /\ Len(polygon_storage) = 3

====
